---- MODULE Spec2Model ----
(***************************************************************************)
(* FrankaHWSim (franka_gazebo/src/franka_hw_sim.cpp): the bridge between   *)
(* the simulated joints and the control stack.  initSim builds the Joint   *)
(* Records from the transmission list, readSim refreshes them and builds   *)
(* the Robot State, the controller writes commanded efforts, writeSim      *)
(* applies gravity-compensated forces.                                     *)
(*                                                                         *)
(* Doubles are modelled as integers plus the value NaN; arithmetic with    *)
(* NaN yields NaN and every comparison with NaN is false, as in IEEE 754.  *)
(* A string is a sequence of tokens (<<"panda", "_joint", "1", "0">> is    *)
(* "panda_joint10"); the tokens are chosen so that token-wise prefix and   *)
(* order agree with the prefix and order of the concatenated strings.      *)
(***************************************************************************)
EXTENDS Integers, Sequences, FiniteSets, TLC

\* ------------------------------------------------------------ bounds
\* readSim calls in a run
MaxCycles == 2
\* writeSim calls the host repeats within one cycle
MaxRepeat == 1

\* ------------------------------------------------------------ doubles
\* NaN is a value outside the range of the numbers the model computes with;
\* every operation on doubles below tests for it first.
NaN == 0 - 1000000

\* std::numeric_limits<double>::infinity(), above every number of the model
Infinity == 0 + 1000000

\* an empty std::shared_ptr / std::unique_ptr / a null pointer
Null == [null |-> TRUE]

IsNaN(x) == x = NaN

Add(x, y) == IF IsNaN(x) \/ IsNaN(y) THEN NaN ELSE x + y

Sub(x, y) == IF IsNaN(x) \/ IsNaN(y) THEN NaN ELSE x - y

Abs(x) == IF IsNaN(x) THEN NaN ELSE IF x < 0 THEN 0 - x ELSE x

Gt(x, y) == IF IsNaN(x) \/ IsNaN(y) THEN FALSE ELSE x > y

BoolToDouble(b) == IF b THEN 1 ELSE 0

\* ------------------------------------------------------------ strings
Digits == <<"0", "1", "2", "3", "4", "5", "6", "7", "8", "9">>

IsDigit(c) == \E d \in 1..10 : Digits[d] = c

DigitValue(c) == (CHOOSE d \in 1..10 : Digits[d] = c) - 1

\* std::to_string of a non-negative int
RECURSIVE to_string(_)
to_string(n) ==
  IF n < 10 THEN <<Digits[n + 1]>> ELSE to_string(n \div 10) \o <<Digits[(n % 10) + 1]>>

\* std::stoi: the value of the longest leading run of digits; no digit at
\* the front is std::invalid_argument
RECURSIVE stoiFrom(_, _)
stoiFrom(s, acc) ==
  IF s = <<>> \/ ~IsDigit(Head(s)) THEN acc
  ELSE stoiFrom(Tail(s), acc * 10 + DigitValue(Head(s)))

stoi(s) ==
  IF s = <<>> \/ ~IsDigit(Head(s))
  THEN [ok |-> FALSE, value |-> 0]
  ELSE [ok |-> TRUE, value |-> stoiFrom(s, 0)]

\* name.rfind(prefix, 0) != npos: the name starts with the prefix
StartsWith(name, prefix) ==
  Len(name) >= Len(prefix) /\ SubSeq(name, 1, Len(prefix)) = prefix

\* the order of the characters that tell two tokens apart
TokenRank(c) ==
  IF IsDigit(c) THEN DigitValue(c)
  ELSE CASE c = "_finger_joint" -> 20
         [] c = "_joint" -> 21
         [] c = "fr3" -> 30
         [] c = "panda" -> 31
         [] OTHER -> 40

\* std::less<std::string>, the order std::map iterates joints_ in
RECURSIVE StrLess(_, _)
StrLess(a, b) ==
  IF b = <<>> THEN FALSE
  ELSE IF a = <<>> THEN TRUE
  ELSE IF Head(a) # Head(b) THEN TokenRank(Head(a)) < TokenRank(Head(b))
  ELSE StrLess(Tail(a), Tail(b))

\* the keys of a std::map in iteration order
RECURSIVE SortedKeys(_)
SortedKeys(S) ==
  IF S = {} THEN <<>>
  ELSE LET m == CHOOSE x \in S : \A y \in S \ {x} : StrLess(x, y)
       IN <<m>> \o SortedKeys(S \ {m})

NumJoints == 7

\* this->arm_id_ + "_joint"
Prefix(arm) == <<arm, "_joint">>

\* this->arm_id_ + "_joint" + std::to_string(i + 1)
ArmJointName(arm, i) == Prefix(arm) \o to_string(i + 1)

\* ------------------------------------------------------------ inputs
SimpleT == "transmission_interface/SimpleTransmission"
StateT == "franka_hw/FrankaStateInterface"
ModelT == "franka_hw/FrankaModelInterface"
OtherT == "transmission_interface/DifferentialTransmission"
EffortI == "hardware_interface/EffortJointInterface"
PositionI == "hardware_interface/PositionJointInterface"

\* transmission_interface::JointInfo
JointInfo(name, role, ifaces) ==
  [name_ |-> name, role_ |-> role, hardware_interfaces_ |-> ifaces]

\* transmission_interface::TransmissionInfo
TransmissionInfo(type, joints) == [type_ |-> type, joints_ |-> joints]

\* ------------------------------------------------------------ Joint Record
\* franka_gazebo::Joint after std::make_shared and the assignments of initSim
NewJoint(name) ==
  [name |-> name, handle |-> TRUE,
   position |-> 0, velocity |-> 0, effort |-> 0, command |-> 0,
   acceleration |-> 0, jerk |-> 0,
   contact_threshold |-> Infinity, collision_threshold |-> Infinity]

\* Joint::isInContact
isInContact(joint) == Gt(Abs(Sub(joint.effort, joint.command)), joint.contact_threshold)

\* Joint::isInCollision
isInCollision(joint) == Gt(Abs(Sub(joint.effort, joint.command)), joint.collision_threshold)

\* Joint::update with an interval of one time unit: reading is what the
\* simulated actuator reports for this joint
JointUpdate(joint, reading) ==
  LET acc == Sub(reading.velocity, joint.velocity)
  IN [joint EXCEPT !.position = reading.position,
                   !.velocity = reading.velocity,
                   !.effort = reading.effort,
                   !.acceleration = acc,
                   !.jerk = Sub(acc, joint.acceleration)]

\* std::map::operator[] / emplace on joints_
MapPut(m, k, v) == [x \in DOMAIN m \cup {k} |-> IF x = k THEN v ELSE m[x]]

\* joints_.emplace(name, joint): an existing entry is kept
MapEmplace(m, k, v) == IF k \in DOMAIN m THEN m ELSE MapPut(m, k, v)

\* joints_[name]: a missing key is inserted with an empty shared_ptr
MapIndex(m, k) == IF k \in DOMAIN m THEN m ELSE MapPut(m, k, Null)

EmptyMap == [x \in {} |-> Null]

\* What ended the process, and at which joint: a failed assert or an
\* exception nobody catches
Exception(what, at) == [what |-> what, at |-> at]

NoException == Exception("", <<>>)

Diag(level, what, who) == [level |-> level, what |-> what, who |-> who]

\* ------------------------------------------------------------ initSim
\* The first loop of initSim: one Joint Record per SimpleTransmission.
\* urdf is Null or [joints: the joint names of the URDF, chain: whether a
\* kinematic chain can be built from it], gz the joint names of the Gazebo
\* model.
RECURSIVE JointLoop(_, _, _, _, _)
JointLoop(ts, urdf, gz, joints, log) ==
  IF ts = <<>> THEN [ret |-> "ok", joints |-> joints, log |-> log]
  ELSE LET t == Head(ts)
           name == t.joints_[1].name_
       IN IF t.type_ # SimpleT THEN JointLoop(Tail(ts), urdf, gz, joints, log)
          ELSE IF t.joints_ = <<>>
          THEN [ret |-> "false", joints |-> joints,
                log |-> log \cup {Diag("WARN", "no associated joints", <<>>)}]
          ELSE IF Len(t.joints_) > 1
          THEN [ret |-> "false", joints |-> joints,
                log |-> log \cup {Diag("WARN", "more than one joint", name)}]
          ELSE IF urdf = Null
          THEN [ret |-> "false", joints |-> joints,
                log |-> log \cup {Diag("ERROR", "no URDF", <<>>)}]
          ELSE IF name \notin urdf.joints
          THEN [ret |-> "false", joints |-> joints,
                log |-> log \cup {Diag("ERROR", "joint not in URDF", name)}]
          ELSE IF name \notin gz
          THEN [ret |-> "false", joints |-> joints,
                log |-> log \cup {Diag("ERROR", "joint not in gazebo model", name)}]
          ELSE JointLoop(Tail(ts), urdf, gz, MapEmplace(joints, name, NewJoint(name)), log)

\* What a statement with undefined behaviour does is not the model's to
\* choose: ubc is the outcome of the build, "crash" (the process dies there)
\* or "continue" (the access reads or clobbers memory nobody looks at and
\* the program goes on).  Either way st.ub records that it happened.
UBOutcomes == {"crash", "continue"}

Throw(st, d) == [st EXCEPT !.ret = "throw", !.log = @ \cup {d}]

Undefined(st, ubc, where) ==
  [st EXCEPT !.ub = @ \cup {where}, !.ret = IF ubc = "crash" THEN "crash" ELSE @]

\* FrankaHWSim::initFrankaStateHandle; st.ret becomes "throw" where the code
\* throws std::invalid_argument
initFrankaStateHandle(robot, urdf, t, st, ubc) ==
  IF Len(t.joints_) # NumJoints
  THEN Throw(st, Diag("ERROR", "7 are required", to_string(Len(t.joints_))))
  ELSE IF urdf = Null THEN Undefined(st, ubc, "urdf")
  ELSE IF \E i \in 1..Len(t.joints_) : t.joints_[i].name_ \notin urdf.joints
  THEN LET i == CHOOSE i \in 1..Len(t.joints_) :
                  /\ t.joints_[i].name_ \notin urdf.joints
                  /\ \A k \in 1..(i - 1) : t.joints_[k].name_ \in urdf.joints
       IN Throw(st, Diag("ERROR", "joint not in URDF", t.joints_[i].name_))
  ELSE [st EXCEPT !.fsi = @ \cup {<<robot, "_robot">>}]

\* the body of the loop over transmission.joints_ in initFrankaModelHandle,
\* from joint i on
RECURSIVE ModelHandleLoop(_, _, _, _, _, _)
ModelHandleLoop(robot, urdf, t, i, st, ubc) ==
  LET js == t.joints_
      IsRoot(k) == js[k].role_ = "root"
      IsTip(k) == js[k].role_ = "tip"
      root == CHOOSE k \in 1..Len(js) : IsRoot(k) /\ \A m \in 1..(k - 1) : ~IsRoot(m)
      tip == CHOOSE k \in 1..Len(js) : IsTip(k) /\ \A m \in 1..(k - 1) : ~IsTip(m)
      built == [st EXCEPT !.model_ = [root |-> js[root].name_, tip |-> js[tip].name_],
                          !.fmi = @ \cup {<<robot, "_model">>}]
  IN IF i > Len(js) THEN st
     ELSE IF js[i].name_ \notin urdf.joints
     THEN Throw(st, Diag("ERROR", "joint not in URDF", js[i].name_))
     ELSE IF ~\E k \in 1..Len(js) : IsRoot(k)
     THEN Throw(st, Diag("ERROR", "no joint with role root", <<>>))
     ELSE IF ~\E k \in 1..Len(js) : IsTip(k)
     THEN Throw(st, Diag("ERROR", "no joint with role tip", <<>>))
     ELSE IF js[root].name_ \notin urdf.joints \/ js[tip].name_ \notin urdf.joints
     THEN \* urdf.getJoint(...) is null and is dereferenced
          IF ubc = "crash" THEN Undefined(st, ubc, "urdf joint")
          ELSE ModelHandleLoop(robot, urdf, t, i + 1, Undefined(built, ubc, "urdf joint"), ubc)
     ELSE IF ~urdf.chain
     THEN Throw(st, Diag("ERROR", "cannot build the chain", <<>>))
     ELSE ModelHandleLoop(robot, urdf, t, i + 1, built, ubc)

\* FrankaHWSim::initFrankaModelHandle
initFrankaModelHandle(robot, urdf, t, st, ubc) ==
  IF Len(t.joints_) # 2
  THEN Throw(st, Diag("ERROR", "2 are required", to_string(Len(t.joints_))))
  ELSE IF urdf = Null THEN Undefined(st, ubc, "urdf")
  ELSE ModelHandleLoop(robot, urdf, t, 1, st, ubc)

\* FrankaHWSim::initEffortCommandHandle
initEffortCommandHandle(name, st) == [st EXCEPT !.eji = @ \cup {name}]

\* Mutant of Unsupported: an interface initSim does not know ends it
UnsupportedIsFatal(st, name, k) ==
  [st EXCEPT !.log = @ \cup {Diag("WARN", "unsupported interface", name \o <<k>>)},
             !.ret = "false"]

\* The end of the inner loop's body: an interface none of the cases above
\* took is warned about, and the loop goes on
Unsupported(st, name, k) ==
  [st EXCEPT !.log = @ \cup {Diag("WARN", "unsupported interface", name \o <<k>>)}]

\* One iteration of the inner loop of initSim's second loop: interface k of
\* the first joint of transmission t.
InterfaceStep(arm, urdf, t, k, st0, ubc) ==
  LET name == t.joints_[1].name_
      st == [st0 EXCEPT !.joints = MapIndex(@, name)]
      joint == st.joints[name]
      warned == Unsupported(st, name, k)
  IN IF t.type_ = SimpleT /\ joint = Null THEN Undefined(st, ubc, "joint->name")
     ELSE IF t.type_ = SimpleT /\ k = EffortI THEN initEffortCommandHandle(name, st)
     ELSE IF t.type_ = StateT
     THEN LET r == initFrankaStateHandle(arm, urdf, t, st, ubc)
          IN IF r.ret = "throw" THEN [r EXCEPT !.ret = "false"] ELSE r
     ELSE IF t.type_ = ModelT
     THEN LET r == initFrankaModelHandle(arm, urdf, t, st, ubc)
          IN IF r.ret = "throw" THEN [r EXCEPT !.ret = "false"] ELSE r
     ELSE IF joint = Null THEN Undefined(warned, ubc, "joint->name")
     ELSE warned

RECURSIVE InterfaceLoop(_, _, _, _, _, _)
InterfaceLoop(arm, urdf, t, ks, st, ubc) ==
  IF ks = <<>> \/ st.ret # "ok" THEN st
  ELSE InterfaceLoop(arm, urdf, t, Tail(ks), InterfaceStep(arm, urdf, t, Head(ks), st, ubc), ubc)

\* The second loop of initSim: the command interfaces of every transmission.
RECURSIVE TransmissionLoop(_, _, _, _, _)
TransmissionLoop(arm, urdf, ts, st, ubc) ==
  IF ts = <<>> \/ st.ret # "ok" THEN st
  ELSE LET t == Head(ts)
       IN IF t.joints_ = <<>>
          THEN \* transmission.joints_[0] of an empty vector
               LET u == Undefined(st, ubc, "joints_[0]")
               IN TransmissionLoop(arm, urdf, Tail(ts), u, ubc)
          ELSE TransmissionLoop(arm, urdf, Tail(ts),
                 InterfaceLoop(arm, urdf, t, t.joints_[1].hardware_interfaces_, st, ubc), ubc)

\* ------------------------------------------------------------ readParameters
Zeros(n) == [i \in 1..n |-> 0]

Array0(n) == [i \in 0..(n - 1) |-> 0]

\* franka::RobotState{} : every field zero
DefaultRobotState ==
  [q |-> Array0(NumJoints), dq |-> Array0(NumJoints), tau_J |-> Array0(NumJoints),
   dtau_J |-> Array0(NumJoints), q_d |-> Array0(NumJoints), dq_d |-> Array0(NumJoints),
   ddq_d |-> Array0(NumJoints), tau_J_d |-> Array0(NumJoints),
   theta |-> Array0(NumJoints), dtheta |-> Array0(NumJoints),
   tau_ext_hat_filtered |-> Array0(NumJoints),
   joint_contact |-> Array0(NumJoints), joint_collision |-> Array0(NumJoints),
   m_ee |-> 0, m_load |-> 0, m_total |-> 0,
   I_ee |-> Zeros(9), I_load |-> Zeros(9), I_total |-> Zeros(9),
   F_x_Cload |-> Zeros(3),
   F_T_NE |-> Zeros(16), NE_T_EE |-> Zeros(16), EE_T_K |-> Zeros(16),
   F_T_EE |-> Zeros(16), O_T_EE |-> Zeros(16),
   control_command_success_rate |-> 0, time |-> 0]

\* Element (r, c), counted from 0, of an n x n matrix stored column by
\* column, the storage order of Eigen::Matrix4d and Eigen::Matrix3d
At(a, n, r, c) == a[c * n + r + 1]

RECURSIVE Sum(_, _, _)
Sum(f(_), lo, hi) == IF lo > hi THEN 0 ELSE f(lo) + Sum(f, lo + 1, hi)

\* Eigen's product of two n x n matrices, stored as its operands are
MatMul(a, b, n) ==
  [e \in 1..(n * n) |->
     LET r == (e - 1) % n
         c == (e - 1) \div n
         term(k) == At(a, n, r, k) * At(b, n, k, c)
     IN Sum(term, 0, n - 1)]

\* skewMatrix(vec), stored column by column
skewMatrix(v) == <<0, v[3], 0 - v[2], 0 - v[3], 0, v[1], v[2], 0 - v[1], 0>>

Transpose(a, n) == [e \in 1..(n * n) |-> At(a, n, (e - 1) \div n, (e - 1) % n)]

\* shiftInertiaTensor(I, m, p) = I + m * skew(p)^T * skew(p)
shiftInertiaTensor(I, m, p) ==
  LET a == skewMatrix(p)
      s == MatMul(Transpose(a, 3), a, 3)
  IN [e \in 1..9 |-> I[e] + m * s[e]]

\* readArray<N>(text, name): the N numbers of the parameter, or
\* std::invalid_argument when it does not hold exactly N
readArray(n, values) == [ok |-> Len(values) = n, value |-> values]

\* franka_hw::FrankaHW::getCollisionThresholds: the parameter when it is set
\* and has as many elements as the defaults, the defaults otherwise
getCollisionThresholds(param, defaults) ==
  IF param = <<>> \/ Len(param) # Len(defaults) THEN defaults ELSE param

DefaultThresholds == <<20, 20, 18, 18, 16, 14, 12>>

\* Mutant of SetThresholds: the lower and upper thresholds change places
SetThresholdsSwapped(joint, lower, upper, i) ==
  [joint EXCEPT !.contact_threshold = upper[i + 1],
                !.collision_threshold = lower[i + 1]]

\* The two assignments in the loop of readParameters, for joint i
SetThresholds(joint, lower, upper, i) ==
  [joint EXCEPT !.contact_threshold = lower[i + 1],
                !.collision_threshold = upper[i + 1]]

\* The loop of readParameters that hands the thresholds to the Joint Records
RECURSIVE ThresholdLoop(_, _, _, _, _, _)
ThresholdLoop(arm, lower, upper, i, st0, ubc) ==
  IF i >= NumJoints \/ st0.ret # "ok" THEN st0
  ELSE LET name == ArmJointName(arm, i)
           st == [st0 EXCEPT !.joints = MapIndex(@, name)]
       IN IF st.joints[name] = Null
          THEN \* a write through an empty shared_ptr
               ThresholdLoop(arm, lower, upper, i + 1, Undefined(st, ubc, "joints_[name]"), ubc)
          ELSE ThresholdLoop(arm, lower, upper, i + 1,
                 [st EXCEPT !.joints[name] = SetThresholds(@, lower, upper, i)], ubc)

\* The arrays readParameters reads in its try block, in the order it reads
\* them; the scalar m_load is read between I_ee and I_load
ArrayParams ==
  <<[field |-> "I_ee", n |-> 9], [field |-> "I_load", n |-> 9],
    [field |-> "F_x_Cload", n |-> 3], [field |-> "F_T_NE", n |-> 16],
    [field |-> "NE_T_EE", n |-> 16], [field |-> "EE_T_K", n |-> 16]>>

SetField(rs, field, v) ==
  CASE field = "I_ee" -> [rs EXCEPT !.I_ee = v]
    [] field = "I_load" -> [rs EXCEPT !.I_load = v]
    [] field = "F_x_Cload" -> [rs EXCEPT !.F_x_Cload = v]
    [] field = "F_T_NE" -> [rs EXCEPT !.F_T_NE = v]
    [] field = "NE_T_EE" -> [rs EXCEPT !.NE_T_EE = v]
    [] field = "EE_T_K" -> [rs EXCEPT !.EE_T_K = v]

RECURSIVE ReadArrays(_, _, _)
ReadArrays(nh, k, st) ==
  IF k > Len(ArrayParams) \/ st.ret # "ok" THEN st
  ELSE LET p == ArrayParams[k]
           a == readArray(p.n, nh[p.field])
           afterLoad == IF p.field = "I_load" THEN [st EXCEPT !.rs.m_load = nh.m_load] ELSE st
       IN IF ~a.ok
          THEN Throw(afterLoad, Diag("ERROR", "wrong number of elements", <<p.field>>))
          ELSE ReadArrays(nh, k + 1, [afterLoad EXCEPT !.rs = SetField(@, p.field, a.value)])

\* Mutant of DerivedState: the transforms are multiplied in the other order
DerivedStateSwapped(rs) ==
  [rs EXCEPT !.m_total = rs.m_ee + rs.m_load,
             !.F_T_EE = MatMul(rs.NE_T_EE, rs.F_T_NE, 4),
             !.I_total = shiftInertiaTensor(rs.I_ee, rs.m_ee, rs.F_x_Cload)]

\* The derived fields readParameters computes after its try block
DerivedState(rs) ==
  [rs EXCEPT !.m_total = rs.m_ee + rs.m_load,
             !.F_T_EE = MatMul(rs.F_T_NE, rs.NE_T_EE, 4),
             !.I_total = shiftInertiaTensor(rs.I_ee, rs.m_ee, rs.F_x_Cload)]

\* FrankaHWSim::readParameters; st.ret becomes "true" or "false"
readParameters(arm, nh, st0, ubc) ==
  LET st1 == [st0 EXCEPT !.rs.m_ee = nh.m_ee]
      st2 == ReadArrays(nh, 1, st1)
      lower == getCollisionThresholds(nh.lower_torque_thresholds_nominal, DefaultThresholds)
      upper == getCollisionThresholds(nh.upper_torque_thresholds_nominal, DefaultThresholds)
      st3 == ThresholdLoop(arm, lower, upper, 0, st2, ubc)
  IN IF st2.ret = "throw" THEN [st2 EXCEPT !.ret = "false"]
     ELSE IF st3.ret # "ok" THEN st3
     ELSE [st3 EXCEPT !.ret = "true", !.rs = DerivedState(@)]

\* The object after construction
Constructed ==
  [ret |-> "ok", arm_id_ |-> "", joints |-> EmptyMap, model_ |-> Null,
   eji |-> {}, jsi |-> {}, fsi |-> {}, fmi |-> {}, log |-> {}, ub |-> {},
   thrown |-> NoException, forces |-> EmptyMap, rs |-> DefaultRobotState]

\* FrankaHWSim::initSim.  cfg holds its arguments and the parameter server:
\* robot_namespace, arm_id (the parameter, "" when it is not set),
\* transmissions, urdf, gz and the parameters nh.  The result's ret is
\* "true", "false" or "crash".
initSim(cfg, ubc) ==
  LET arm == IF cfg.arm_id = "" THEN cfg.robot_namespace ELSE cfg.arm_id
      st0 == [Constructed EXCEPT
                !.arm_id_ = arm,
                !.log = IF arm # cfg.robot_namespace
                        THEN {Diag("WARN", "robot names differ", <<arm>>)} ELSE {}]
      l1 == JointLoop(cfg.transmissions, cfg.urdf, cfg.gz, st0.joints, st0.log)
      st1 == [st0 EXCEPT !.joints = l1.joints, !.log = l1.log, !.ret = l1.ret]
      st2 == [st1 EXCEPT !.jsi = DOMAIN st1.joints]
      st3 == TransmissionLoop(arm, cfg.urdf, cfg.transmissions, st2, ubc)
  IN IF st1.ret # "ok" THEN st1
     ELSE IF st3.ret # "ok" THEN st3
     ELSE readParameters(arm, cfg.nh, st3, ubc)

\* ------------------------------------------------------------ Dynamics Provider
\* ModelKDL::gravity(robot_state): a pure function of the joint positions
gravity(rs) == [i \in 0..(NumJoints - 1) |-> Add(rs.q[i], i + 1)]

\* ModelKDL::pose(frame, robot_state): a pure function of the joint positions
pose(rs) == [e \in 1..16 |-> IF e <= NumJoints THEN rs.q[e - 1] ELSE 0]

\* ------------------------------------------------------------ readSim
\* The loop of readSim: joint->update(period) for every entry of joints_
RECURSIVE UpdateLoop(_, _, _, _)
UpdateLoop(keys, reading, st, ubc) ==
  IF keys = <<>> \/ st.ret # "ok" THEN st
  ELSE LET name == Head(keys)
       IN IF st.joints[name] = Null
          THEN UpdateLoop(Tail(keys), reading, Undefined(st, ubc, "joint->update"), ubc)
          ELSE UpdateLoop(Tail(keys), reading,
                 [st EXCEPT !.joints[name] = JointUpdate(@, reading[name])], ubc)

\* Index used by the loop of updateRobotState for joint i
StateIndex(i) == i

\* The loop of updateRobotState, from index i on
RECURSIVE StateLoop(_, _, _)
StateLoop(i, st, ubc) ==
  IF i >= NumJoints \/ st.ret # "ok" THEN st
  ELSE LET name == ArmJointName(st.arm_id_, i)
           joint == st.joints[name]
           k == StateIndex(i)
       IN IF name \notin DOMAIN st.joints
          THEN [st EXCEPT !.ret = "crash", !.thrown = Exception("out_of_range", name)]
          ELSE IF joint = Null
          THEN StateLoop(i + 1, Undefined(st, ubc, "joint->position"), ubc)
          ELSE StateLoop(i + 1,
                 [st EXCEPT !.rs.q[k] = joint.position,
                            !.rs.dq[k] = joint.velocity,
                            !.rs.tau_J[k] = joint.effort,
                            !.rs.dtau_J[k] = joint.jerk,
                            !.rs.q_d[k] = joint.position,
                            !.rs.dq_d[k] = joint.velocity,
                            !.rs.ddq_d[k] = joint.acceleration,
                            !.rs.tau_J_d[k] = joint.command,
                            !.rs.theta[k] = joint.position,
                            !.rs.dtheta[k] = joint.velocity,
                            !.rs.tau_ext_hat_filtered[k] = Sub(joint.effort, joint.command),
                            !.rs.joint_contact[k] = BoolToDouble(isInContact(joint)),
                            !.rs.joint_collision[k] = BoolToDouble(isInCollision(joint))],
                 ubc)

\* FrankaHWSim::updateRobotState; ndebug says whether assert is compiled out
updateRobotState(time, st, ubc, ndebug) ==
  IF ~ndebug /\ Cardinality(DOMAIN st.joints) # NumJoints
  THEN [st EXCEPT !.ret = "crash", !.thrown = Exception("assert", <<>>)]
  ELSE LET st1 == StateLoop(0, st, ubc)
           st2 == [st1 EXCEPT !.rs.control_command_success_rate = 1, !.rs.time = time]
       IN IF st1.ret # "ok" THEN st1
          ELSE IF st2.model_ = Null THEN Undefined(st2, ubc, "model_->pose")
          ELSE [st2 EXCEPT !.rs.O_T_EE = pose(st2.rs)]

\* FrankaHWSim::readSim
readSim(time, reading, st0, ubc, ndebug) ==
  LET st == [st0 EXCEPT !.log = {}]
      st1 == UpdateLoop(SortedKeys(DOMAIN st.joints), reading, st, ubc)
  IN IF st1.ret # "ok" THEN st1 ELSE updateRobotState(time, st1, ubc, ndebug)

\* ------------------------------------------------------------ writeSim
\* Mutant of GravityIndex: the joint number is used as it is, 1-based
GravityIndexOneBased(name, prefix) == stoi(SubSeq(name, Len(prefix) + 1, Len(name)))

\* The index writeSim adds gravity at for a joint whose name starts with
\* the prefix: std::stoi(name.substr(prefix.size())) - 1
GravityIndex(name, prefix) ==
  LET n == stoi(SubSeq(name, Len(prefix) + 1, Len(name)))
  IN [ok |-> n.ok, value |-> n.value - 1]

\* Whether writeSim adds gravity to the command of this joint
IsCompensated(name, prefix) == StartsWith(name, prefix)

\* What writeSim does with an effective command that is NaN
SkipsNaN(command) == IsNaN(command)

\* Mutant of SetForce: command is a reference to joint->command, so the
\* compensated value is stored back into the Joint Record
SetForceThroughReference(st, name, command) ==
  [st EXCEPT !.forces[name] = Append(@, command), !.joints[name].command = command]

\* joint->handle->SetForce(0, command)
SetForce(st, name, command) == [st EXCEPT !.forces[name] = Append(@, command)]

\* The loop of writeSim over joints_ in key order.  st.forces[name] is the
\* sequence of values SetForce was called with on that joint's actuator.
RECURSIVE ForceLoop(_, _, _, _)
ForceLoop(keys, g, st, ubc) ==
  IF keys = <<>> \/ st.ret # "ok" THEN st
  ELSE LET name == Head(keys)
           joint == st.joints[name]
           prefix == Prefix(st.arm_id_)
           i == GravityIndex(name, prefix)
           command == IF IsCompensated(name, prefix)
                      THEN Add(joint.command, g[i.value]) ELSE joint.command
       IN IF joint = Null
          THEN ForceLoop(Tail(keys), g, Undefined(st, ubc, "joint->command"), ubc)
          ELSE IF IsCompensated(name, prefix) /\ ~i.ok
          THEN [st EXCEPT !.ret = "crash", !.thrown = Exception("invalid_argument", name)]
          ELSE IF IsCompensated(name, prefix) /\ i.value \notin DOMAIN g
          THEN [st EXCEPT !.ret = "crash", !.thrown = Exception("out_of_range", name)]
          ELSE IF SkipsNaN(command)
          THEN ForceLoop(Tail(keys), g,
                 [st EXCEPT !.log = @ \cup {Diag("WARN", "command is NaN", name)}], ubc)
          ELSE ForceLoop(Tail(keys), g, SetForce(st, name, command), ubc)

\* FrankaHWSim::writeSim
writeSim(st0, ubc) ==
  LET st == [st0 EXCEPT !.forces = [n \in DOMAIN st0.joints |-> <<>>], !.log = {}]
      keys == SortedKeys(DOMAIN st.joints)
  IN IF st.model_ = Null
     THEN LET u == Undefined(st, ubc, "model_->gravity")
          IN ForceLoop(keys, Array0(NumJoints), u, ubc)
     ELSE ForceLoop(keys, gravity(st.rs), st, ubc)

\* ------------------------------------------------------------ state
VARIABLES
  ndebug,        \* whether the build defines NDEBUG (assert compiled out)
  pc,            \* "constructed", "failed", "idle", "control", "commanded", "written",
                 \* "crashed"
  cfg,           \* the arguments and parameters initSim is called with
  arm_id_,       \* FrankaHWSim::arm_id_
  joints_,       \* FrankaHWSim::joints_ : name -> Joint Record or Null
  model_,        \* FrankaHWSim::model_ : Null or the Dynamics Provider
  robot_state_,  \* FrankaHWSim::robot_state_
  ifaces,        \* the handles registered with eji_, jsi_, fsi_, fmi_
  log,           \* the diagnostics the last operation emitted
  ub,            \* the statements with undefined behaviour executed so far
  thrown,        \* what ended the process: nothing, a failed assert, an exception
  forces,        \* the SetForce calls of the last writeSim, per joint
  prevForces,    \* those of the writeSim before it, same cycle, same inputs
  repeats,       \* writeSim calls since the last readSim or controller write
  cycle,         \* readSim calls so far
  nanCycle       \* the last cycle in which the controller wrote a NaN, or 0

vars == <<ndebug, pc, cfg, arm_id_, joints_, model_, robot_state_, ifaces, log, ub,
          thrown, forces, prevForces, repeats, cycle, nanCycle>>

\* The object as the operators above take it
Object ==
  [ret |-> "ok", arm_id_ |-> arm_id_, joints |-> joints_, model_ |-> model_,
   eji |-> ifaces.eji, jsi |-> ifaces.jsi, fsi |-> ifaces.fsi, fmi |-> ifaces.fmi,
   log |-> log, ub |-> ub, thrown |-> thrown, forces |-> forces, rs |-> robot_state_]

\* The object after an operation returned r
Becomes(r) ==
  /\ arm_id_' = r.arm_id_
  /\ joints_' = r.joints
  /\ model_' = r.model_
  /\ robot_state_' = r.rs
  /\ ifaces' = [eji |-> r.eji, jsi |-> r.jsi, fsi |-> r.fsi, fmi |-> r.fmi]
  /\ log' = r.log
  /\ ub' = r.ub
  /\ thrown' = r.thrown
  /\ forces' = r.forces

\* The build's outcome is a choice only where an operation ran into
\* undefined behaviour: without any, r is the same for both
IsOutcome(r, ubc) == ubc = "crash" \/ r.ub # ub

\* The object after construction, in a build with or without NDEBUG, and
\* the robot description and parameters the plugin is about to be loaded
\* with, one of Cfgs
Constructs(Cfgs) ==
  /\ ndebug \in BOOLEAN
  /\ pc = "constructed"
  /\ cfg \in Cfgs
  /\ arm_id_ = Constructed.arm_id_
  /\ joints_ = Constructed.joints
  /\ model_ = Constructed.model_
  /\ robot_state_ = Constructed.rs
  /\ ifaces = [eji |-> {}, jsi |-> {}, fsi |-> {}, fmi |-> {}]
  /\ log = {}
  /\ ub = {}
  /\ thrown = NoException
  /\ forces = EmptyMap
  /\ prevForces = EmptyMap
  /\ repeats = 0
  /\ cycle = 0
  /\ nanCycle = 0

\* gazebo_ros_control loads the plugin: initSim
InitSim ==
  /\ pc = "constructed"
  /\ \E ubc \in UBOutcomes :
       LET r == initSim(cfg, ubc)
       IN /\ IsOutcome(r, ubc)
          /\ Becomes(r)
          /\ pc' = CASE r.ret = "true" -> "idle"
                      [] r.ret = "false" -> "failed"
                      [] OTHER -> "crashed"
  /\ UNCHANGED <<ndebug, cfg, prevForces, repeats, cycle, nanCycle>>

\* What the simulated actuators report: joint `name` is at position p with
\* velocity p and effort e, every other joint is at rest
Reading(p, e) == [position |-> p, velocity |-> p, effort |-> e]

ReadingOf(name, p, e) ==
  [n \in DOMAIN joints_ |-> IF n = name THEN Reading(p, e) ELSE Reading(0, 0)]

\* The simulation step's readSim(time, period)
ReadSim(Targets, Positions, Efforts) ==
  /\ pc \in {"idle", "written"}
  /\ cycle < MaxCycles
  /\ \E name \in Targets, p \in Positions, e \in Efforts, ubc \in UBOutcomes :
       LET r == readSim(cycle + 1, ReadingOf(name, p, e), Object, ubc, ndebug)
       IN /\ IsOutcome(r, ubc)
          /\ Becomes(r)
          /\ pc' = IF r.ret = "ok" THEN "control" ELSE "crashed"
  /\ cycle' = cycle + 1
  /\ repeats' = 0
  /\ prevForces' = EmptyMap
  /\ UNCHANGED <<ndebug, cfg, nanCycle>>

\* The controller's update of this cycle writes a commanded effort through
\* a handle of the EffortJointInterface
ControllerWrite(Targets, CommandVals) ==
  /\ pc = "control"
  /\ pc' = "commanded"
  /\ \E name \in Targets \cap ifaces.eji, v \in CommandVals :
       /\ joints_' = [joints_ EXCEPT ![name].command = v]
       /\ nanCycle' = IF IsNaN(v) THEN cycle ELSE nanCycle
  /\ UNCHANGED <<ndebug, cfg, arm_id_, model_, robot_state_, ifaces, log, ub,
                 thrown, forces, prevForces, repeats, cycle>>

\* The simulation step's writeSim(time, period); a second call in the same
\* cycle is the host calling it again with nothing changed in between
WriteSim ==
  /\ \/ pc \in {"control", "commanded"}
     \/ pc = "written" /\ repeats <= MaxRepeat
  /\ \E ubc \in UBOutcomes :
       LET r == writeSim(Object, ubc)
       IN /\ IsOutcome(r, ubc)
          /\ Becomes(r)
          /\ pc' = IF r.ret = "ok" THEN "written" ELSE "crashed"
  /\ prevForces' = forces
  /\ repeats' = repeats + 1
  /\ UNCHANGED <<ndebug, cfg, cycle, nanCycle>>

\* ------------------------------------------------------------ configurations
\* The robot description names its joints panda_joint1 .. panda_joint7
Panda(n) == ArmJointName("panda", n - 1)

Finger == <<"panda", "_finger_joint", "1">>
Joint8 == <<"panda", "_joint", "8">>
Joint10 == <<"panda", "_joint", "1", "0">>
JointX == <<"panda", "_joint", "x">>
NotInUrdf == <<"panda", "_finger_joint", "2">>
NotInGazebo == <<"panda", "_finger_joint", "3">>

ArmNames == {Panda(n) : n \in 1..NumJoints}

Urdf == [joints |-> ArmNames \cup {Finger, Joint8, Joint10, JointX, NotInGazebo},
         chain |-> TRUE]

Gazebo == ArmNames \cup {Finger, Joint8, Joint10, JointX, NotInUrdf}

Simple(name, ifs) == TransmissionInfo(SimpleT, <<JointInfo(name, "", ifs)>>)

\* <transmission> of the seven arm joints, without joint `skip` (0: none)
ArmTransmissions(skip) ==
  LET ns == SelectSeq([n \in 1..NumJoints |-> n], LAMBDA n : n # skip)
  IN [k \in 1..Len(ns) |-> Simple(Panda(ns[k]), <<EffortI>>)]

\* A franka_hw/FrankaStateInterface transmission of the arm joints first..n
\* whose first joint declares the interfaces ifs
StateTransmission(first, n, ifs) ==
  TransmissionInfo(StateT,
    [k \in 1..(n - first + 1) |->
       JointInfo(Panda(first + k - 1), "", IF k = 1 THEN ifs ELSE <<>>)])

ModelTransmission(joints) == TransmissionInfo(ModelT, joints)

StateOk == StateTransmission(1, NumJoints, <<StateT>>)

ModelOk ==
  ModelTransmission(<<JointInfo(Panda(1), "root", <<ModelT>>), JointInfo(Joint8, "tip", <<ModelT>>)>>)

\* Parameters: the values the parameter server holds.  The model draws
\* integer-valued ones; column-major 4 x 4 transforms.
RotZ == <<0, -1, 0, 0, 1, 0, 0, 0, 0, 0, 1, 0, 0, 0, 1, 1>>
ShiftX == <<1, 0, 0, 0, 0, 1, 0, 0, 0, 0, 1, 0, 2, 0, 0, 1>>
Identity4 == <<1, 0, 0, 0, 0, 1, 0, 0, 0, 0, 1, 0, 0, 0, 0, 1>>

DefaultNh ==
  [m_ee |-> 73, I_ee |-> <<10, 0, 0, 0, 25, 0, 0, 0, 17>>, m_load |-> 0,
   I_load |-> Zeros(9), F_x_Cload |-> Zeros(3),
   F_T_NE |-> RotZ, NE_T_EE |-> Identity4, EE_T_K |-> Identity4,
   lower_torque_thresholds_nominal |-> <<>>,
   upper_torque_thresholds_nominal |-> <<>>]

Config(arm, ts, urdf, nh) ==
  [robot_namespace |-> "panda", arm_id |-> arm, transmissions |-> ts,
   urdf |-> urdf, gz |-> Gazebo, nh |-> nh]

\* -- the cycle: valid descriptions, with and without one more joint
LowerCustom == <<10, 10, 10, 10, 10, 10, 10>>
UpperCustom == <<20, 21, 22, 23, 24, 25, 26>>

RunNhs ==
  {DefaultNh,
   [DefaultNh EXCEPT !.lower_torque_thresholds_nominal = LowerCustom,
                     !.upper_torque_thresholds_nominal = UpperCustom]}

RunExtras ==
  {<<>>, <<Simple(Finger, <<EffortI>>)>>, <<Simple(Joint10, <<EffortI>>)>>,
   <<Simple(JointX, <<EffortI>>)>>}

RunCfgs ==
  {Config("", ArmTransmissions(0) \o x \o <<StateOk, ModelOk>>, Urdf, nh) :
     x \in RunExtras, nh \in RunNhs}

RunTargets == {Panda(1), Panda(7), Finger}

RunPositions == {1}

RunEfforts == {0, 15}

RunCommands == {NaN, 5}

Init == Constructs(RunCfgs)

Next ==
  \/ InitSim
  \/ ReadSim(RunTargets, RunPositions, RunEfforts)
  \/ ControllerWrite(RunTargets, RunCommands)
  \/ WriteSim

Spec == Init /\ [][Next]_vars

\* -- initialisation: robot descriptions of every shape, a short cycle
MultiJoint ==
  TransmissionInfo(SimpleT,
    <<JointInfo(Finger, "", <<EffortI>>), JointInfo(NotInGazebo, "", <<EffortI>>)>>)

InitArms == {ArmTransmissions(0), ArmTransmissions(4)}

InitExtras ==
  {<<>>,
   <<Simple(Finger, <<EffortI>>)>>,
   <<Simple(Finger, <<PositionI>>)>>,
   <<Simple(Finger, <<PositionI, EffortI>>)>>,
   <<Simple(Joint10, <<EffortI>>)>>,
   <<MultiJoint>>,
   <<TransmissionInfo(SimpleT, <<>>)>>,
   <<Simple(NotInUrdf, <<EffortI>>)>>,
   <<Simple(NotInGazebo, <<EffortI>>)>>,
   <<TransmissionInfo(OtherT, <<JointInfo(Panda(1), "", <<PositionI>>)>>)>>,
   <<TransmissionInfo(OtherT, <<JointInfo(Joint8, "", <<PositionI>>)>>)>>}

InitStates ==
  {<<>>,
   <<StateOk>>,
   <<StateTransmission(1, 6, <<StateT>>)>>,
   <<StateTransmission(1, 6, <<>>)>>,
   <<StateTransmission(1, NumJoints, <<>>)>>,
   <<StateTransmission(1, 8, <<StateT>>)>>,
   <<TransmissionInfo(StateT, <<>>)>>,
   <<TransmissionInfo(StateT,
       <<JointInfo(Joint8, "", <<StateT>>)>> \o StateTransmission(1, 6, <<>>).joints_)>>}

Root(name, ifs) == JointInfo(name, "root", ifs)
Tip(name, ifs) == JointInfo(name, "tip", ifs)
Plain(name, ifs) == JointInfo(name, "", ifs)

InitModels ==
  {<<>>,
   <<ModelOk>>,
   <<ModelTransmission(<<Tip(Joint8, <<ModelT>>), Root(Panda(1), <<ModelT>>)>>)>>,
   <<ModelTransmission(<<Plain(Panda(1), <<ModelT>>), Tip(Joint8, <<ModelT>>)>>)>>,
   <<ModelTransmission(<<Root(Panda(1), <<ModelT>>), Plain(Joint8, <<ModelT>>)>>)>>,
   <<ModelTransmission(<<Plain(Panda(1), <<>>), Tip(Joint8, <<>>)>>)>>,
   <<ModelTransmission(<<Root(Panda(1), <<ModelT>>), Plain(Panda(2), <<>>), Tip(Joint8, <<>>)>>)>>,
   <<ModelTransmission(<<Plain(Panda(1), <<ModelT>>), Plain(Panda(2), <<>>), Tip(Joint8, <<>>)>>)>>,
   <<ModelTransmission(<<Root(Panda(1), <<ModelT>>), Tip(NotInUrdf, <<ModelT>>)>>)>>,
   <<ModelTransmission(<<>>)>>}

NoChain == [Urdf EXCEPT !.chain = FALSE]

InitCfgs ==
  {Config(arm, a \o x \o st \o m, Urdf, DefaultNh) :
     arm \in {"", "fr3"}, a \in InitArms, x \in InitExtras, st \in InitStates,
     m \in InitModels}
  \cup {Config("", ArmTransmissions(0) \o st \o m, u, DefaultNh) :
          st \in InitStates, m \in InitModels, u \in {NoChain, Null}}

InitTargets == {Panda(1)}

InitConstructs == Constructs(InitCfgs)

NextInit ==
  \/ InitSim
  \/ ReadSim(InitTargets, {1}, {0})
  \/ ControllerWrite(InitTargets, {5})
  \/ WriteSim

SpecInit == InitConstructs /\ [][NextInit]_vars

\* -- the parameters: a valid robot description, parameters of every shape
Short15 == [i \in 1..15 |-> 0]

ParamNhs ==
  {[DefaultNh EXCEPT !.m_ee = me, !.m_load = ml, !.F_T_NE = a, !.NE_T_EE = b,
                     !.I_ee = ie, !.F_x_Cload = fx] :
     me \in {73, 1}, ml \in {0, 3}, a \in {RotZ, ShiftX},
     b \in {Identity4, ShiftX, RotZ, Short15},
     ie \in {DefaultNh.I_ee, <<1, 0, 0, 0, 1, 0, 0, 0>>}, fx \in {Zeros(3), <<1, 0, 2>>}}

ParamCfgs ==
  {Config("", ArmTransmissions(0) \o <<StateOk, ModelOk>>, Urdf, nh) : nh \in ParamNhs}

ParamConstructs == Constructs(ParamCfgs)

NextParams ==
  \/ InitSim
  \/ ReadSim(InitTargets, {1}, {0, 15})
  \/ ControllerWrite(InitTargets, {5})
  \/ WriteSim

SpecParams == ParamConstructs /\ [][NextParams]_vars

\* ------------------------------------------------------------ the claims' vocabulary
\* initSim has returned true
InitReturnedTrue == pc \in {"idle", "control", "commanded", "written"} \/ (pc = "crashed" /\ cycle >= 1)

\* A writeSim call has just ended (by returning or by an exception)
AfterWriteSim == repeats >= 1

\* A readSim call has just returned
AfterReadSim == pc = "control"

\* The Joint Records
Records == {n \in DOMAIN joints_ : joints_[n] # Null}

\* The index n - 1 of the arm joint "<arm_id>_joint<n>", n in 1..7
IsArmJoint(name) == \E i \in 0..(NumJoints - 1) : name = ArmJointName(arm_id_, i)

ArmIndex(name) == CHOOSE i \in 0..(NumJoints - 1) : name = ArmJointName(arm_id_, i)

\* The effective command of the specification: the commanded effort plus
\* the gravity term of the joint's index for an arm joint, the commanded
\* effort alone for a joint outside the naming pattern
EffectiveCommand(name) ==
  IF IsArmJoint(name)
  THEN Add(joints_[name].command, gravity(robot_state_)[ArmIndex(name)])
  ELSE joints_[name].command

HasEffectiveCommand(name) == IsArmJoint(name) \/ ~StartsWith(name, Prefix(arm_id_))

\* C1: NaN containment in writeSim.  After a writeSim call in which the
\* commanded effort of some joint is NaN, no SetForce call was made on that
\* joint, and every other joint whose effective command is a number
\* received exactly one SetForce call, with its effective command.
C1_NaNContainment ==
  (AfterWriteSim /\ \E k \in Records : IsNaN(joints_[k].command))
    => \A j \in Records :
         IF IsNaN(joints_[j].command) THEN forces[j] = <<>>
         ELSE (HasEffectiveCommand(j) /\ ~IsNaN(EffectiveCommand(j)))
                => forces[j] = <<EffectiveCommand(j)>>

\* C2: gravity compensation mapping.  Every force writeSim applies to an
\* arm joint "<arm_id>_joint<n>" is its commanded effort plus gravity[n-1],
\* n-1 being the index at which updateRobotState stored that joint's
\* position and effort; every force it applies to a joint whose name does
\* not start with "<arm_id>_joint" is the raw commanded effort, and no
\* exception is raised at such a joint.
C2_GravityMapping ==
  AfterWriteSim
    => /\ \A j \in Records : \A k \in 1..Len(forces[j]) :
            /\ IsArmJoint(j) =>
                 /\ forces[j][k] = Add(joints_[j].command, gravity(robot_state_)[ArmIndex(j)])
                 /\ robot_state_.q[ArmIndex(j)] = joints_[j].position
                 /\ robot_state_.tau_J[ArmIndex(j)] = joints_[j].effort
            /\ ~StartsWith(j, Prefix(arm_id_)) => forces[j][k] = joints_[j].command
       /\ thrown.what \in {"invalid_argument", "out_of_range"}
            => StartsWith(thrown.at, Prefix(arm_id_))

\* C2 happens: a compensated arm joint and a raw joint outside the pattern
\* were both written in one writeSim call, with different gravity terms
C2_Witness ==
  /\ pc = "written"
  /\ Finger \in Records
  /\ forces[Finger] = <<5>>
  /\ joints_[Panda(7)].command = 5
  /\ forces[Panda(7)] = <<13>>
  /\ forces[Panda(1)] = <<1>>

\* The thresholds readParameters loads: the parameter when it is set and
\* holds 7 values, the defaults otherwise
LoadedThresholds(param) == IF Len(param) = NumJoints THEN param ELSE DefaultThresholds

\* C5: contact and collision flags.  At the end of every readSim, for
\* every index i, joint_contact[i] is 1 when |effort - command| of joint
\* "<arm_id>_joint<i+1>" exceeds the i-th lower nominal torque threshold
\* and 0 otherwise, joint_collision[i] likewise with the i-th upper
\* threshold, and tau_ext_hat_filtered[i] is that effort - command.
C5_ContactFlags ==
  AfterReadSim
    => \A i \in 0..(NumJoints - 1) :
         LET j == joints_[ArmJointName(arm_id_, i)]
             d == Sub(j.effort, j.command)
             lower == LoadedThresholds(cfg.nh.lower_torque_thresholds_nominal)[i + 1]
             upper == LoadedThresholds(cfg.nh.upper_torque_thresholds_nominal)[i + 1]
         IN /\ j.contact_threshold = lower
            /\ j.collision_threshold = upper
            /\ robot_state_.tau_ext_hat_filtered[i] = d
            /\ robot_state_.joint_contact[i] = (IF ~IsNaN(d) /\ Abs(d) > lower THEN 1 ELSE 0)
            /\ robot_state_.joint_collision[i] = (IF ~IsNaN(d) /\ Abs(d) > upper THEN 1 ELSE 0)

\* C5 happens: joint 7 is in contact and not in collision while joint 1,
\* with the same thresholds of its own, is in neither
C5_Witness ==
  /\ AfterReadSim
  /\ robot_state_.joint_contact[6] = 1
  /\ robot_state_.joint_collision[6] = 0
  /\ robot_state_.joint_contact[0] = 0
  /\ robot_state_.tau_ext_hat_filtered[6] = 15

\* No field of the Robot State is NaN
NoNaNIn(a) == \A e \in DOMAIN a : ~IsNaN(a[e])

RobotStateHasNoNaN ==
  /\ \A f \in {"q", "dq", "tau_J", "dtau_J", "q_d", "dq_d", "ddq_d", "tau_J_d", "theta",
                "dtheta", "tau_ext_hat_filtered", "joint_contact", "joint_collision",
                "I_ee", "I_load", "I_total", "F_x_Cload", "F_T_NE", "NE_T_EE", "EE_T_K",
                "F_T_EE", "O_T_EE"} : NoNaNIn(robot_state_[f])
  /\ \A f \in {"m_ee", "m_load", "m_total", "control_command_success_rate", "time"} :
       ~IsNaN(robot_state_[f])

\* C6: a NaN command written by the controller in cycle n (the simulator's
\* readings all being numbers) leaves no NaN in the Robot State that readSim
\* of cycle n+1 builds.
C6_NaNDoesNotReachNextCycle ==
  (AfterReadSim /\ cycle >= 2 /\ nanCycle = cycle - 1) => RobotStateHasNoNaN

\* C9: idempotence of writeSim.  A writeSim step changes no Joint Record
\* and no Robot State field, and a second call in the same cycle, with no
\* readSim and no controller write in between, makes the same SetForce
\* calls as the first.
C9_WriteSimIdempotent ==
  /\ [][repeats' = repeats + 1 => (joints_' = joints_ /\ robot_state_' = robot_state_)]_vars
  /\ [](repeats >= 2 => forces = prevForces)

\* C9 happens: writeSim ran twice in a row in a cycle in which it applied a
\* compensated force to one joint and skipped a NaN on another
C9_Witness ==
  /\ repeats >= 2
  /\ pc = "written"
  /\ IsNaN(joints_[Panda(1)].command)
  /\ forces[Panda(1)] = <<>>
  /\ forces[Panda(7)] = <<12>>

\* ------------------------------------------------------------ initialisation claims
\* initSim has just ended: log holds its diagnostics
AfterInitSim == pc # "constructed" /\ cycle = 0

\* No statement with undefined behaviour was executed: what the state shows
\* does not rest on what a build makes of one
Defined == ub = {}

\* C3: after initSim returned true the set of Joint Records has exactly 7
\* entries whenever updateRobotState runs, so its assertion never fails.
C3_SevenJointsAfterInit ==
  (InitReturnedTrue /\ Defined)
    => Cardinality(DOMAIN joints_) = NumJoints /\ thrown.what # "assert"

IsMalformedState(t) == t.type_ = StateT /\ Len(t.joints_) # NumJoints

IsMalformedModel(t) ==
  /\ t.type_ = ModelT
  /\ \/ ~\E k \in 1..Len(t.joints_) : t.joints_[k].role_ = "root"
     \/ ~\E k \in 1..Len(t.joints_) : t.joints_[k].role_ = "tip"

\* C4: initSim returns false whenever the transmission list holds a
\* FrankaStateInterface transmission that does not list 7 joints or a
\* FrankaModelInterface transmission without a root or without a tip role.
C4_RejectsMalformedFranka ==
  (InitReturnedTrue /\ Defined)
    => \A k \in 1..Len(cfg.transmissions) :
         ~IsMalformedState(cfg.transmissions[k]) /\ ~IsMalformedModel(cfg.transmissions[k])

\* C10: after initSim returned true the Dynamics Provider is constructed,
\* each of "<arm_id>_joint1" .. "<arm_id>_joint7" has a Joint Record with a
\* bound actuator handle, and joints_ holds no empty record under any name.
C10_FatalErrorsSurfaceAtInit ==
  (InitReturnedTrue /\ Defined)
    => /\ model_ # Null
       /\ \A i \in 0..(NumJoints - 1) :
            /\ ArmJointName(arm_id_, i) \in Records
            /\ joints_[ArmJointName(arm_id_, i)].handle
       /\ \A n \in DOMAIN joints_ : joints_[n] # Null

IsSingleSimple(t) == t.type_ = SimpleT /\ Len(t.joints_) = 1

IsMultiSimple(t) == t.type_ = SimpleT /\ Len(t.joints_) > 1

\* The interfaces initSim recognises on the joint of a SimpleTransmission
Recognised(ifs) == SelectSeq(ifs, LAMBDA k : k = EffortI)

\* The transmission list without the unrecognised interfaces of the
\* single-joint SimpleTransmissions
WithoutUnrecognised(ts) ==
  [k \in 1..Len(ts) |->
     IF IsSingleSimple(ts[k])
     THEN [ts[k] EXCEPT !.joints_[1].hardware_interfaces_ = Recognised(@)]
     ELSE ts[k]]

\* ... and without the SimpleTransmissions that list more than one joint
WithoutUnsupported(ts) == SelectSeq(WithoutUnrecognised(ts), LAMBDA t : ~IsMultiSimple(t))

\* The warnings initSim emits for the unrecognised interfaces of the
\* single-joint SimpleTransmissions
UnrecognisedWarnings(ts) ==
  {Diag("WARN", "unsupported interface",
        ts[k].joints_[1].name_ \o <<ts[k].joints_[1].hardware_interfaces_[i]>>) :
     <<k, i>> \in {<<k, i>> \in (1..Len(ts)) \X (1..2) :
                    /\ IsSingleSimple(ts[k])
                    /\ i <= Len(ts[k].joints_[1].hardware_interfaces_)
                    /\ ts[k].joints_[1].hardware_interfaces_[i] # EffortI}}

Elem(a, r, c) == a[c * 4 + r + 1]

\* C8: after initSim returned true and after any number of readSim and
\* writeSim calls, m_total = m_ee + m_load and F_T_EE = F_T_NE * NE_T_EE,
\* and the calibration fields are the ones readParameters loaded.
C8_CalibrationInvariants ==
  InitReturnedTrue
    => /\ robot_state_.m_total = robot_state_.m_ee + robot_state_.m_load
       /\ \A r \in 0..3, c \in 0..3 :
            Elem(robot_state_.F_T_EE, r, c) =
                Elem(robot_state_.F_T_NE, r, 0) * Elem(robot_state_.NE_T_EE, 0, c)
              + Elem(robot_state_.F_T_NE, r, 1) * Elem(robot_state_.NE_T_EE, 1, c)
              + Elem(robot_state_.F_T_NE, r, 2) * Elem(robot_state_.NE_T_EE, 2, c)
              + Elem(robot_state_.F_T_NE, r, 3) * Elem(robot_state_.NE_T_EE, 3, c)
       /\ robot_state_.m_ee = cfg.nh.m_ee
       /\ robot_state_.m_load = cfg.nh.m_load
       /\ robot_state_.I_ee = cfg.nh.I_ee
       /\ robot_state_.I_load = cfg.nh.I_load
       /\ robot_state_.F_x_Cload = cfg.nh.F_x_Cload
       /\ robot_state_.F_T_NE = cfg.nh.F_T_NE
       /\ robot_state_.NE_T_EE = cfg.nh.NE_T_EE
       /\ robot_state_.EE_T_K = cfg.nh.EE_T_K
       /\ robot_state_.I_total =
            shiftInertiaTensor(cfg.nh.I_ee, cfg.nh.m_ee, cfg.nh.F_x_Cload)

\* C8 happens: two cycles ran with transforms that do not commute and a
\* load mass that is not zero
C8_Witness ==
  /\ pc = "written"
  /\ cycle >= 2
  /\ robot_state_.F_T_NE = RotZ
  /\ robot_state_.NE_T_EE = ShiftX
  /\ robot_state_.F_T_EE # MatMul(ShiftX, RotZ, 4)
  /\ robot_state_.m_load = 3
  /\ robot_state_.m_total = 76

====
